---- MODULE Spec2Model ----
(***************************************************************************)
(* Model of scrape.py: one run of main() of the Griebnitzsee mensa bot.    *)
(*                                                                         *)
(* Text is a sequence of code points, each written as a one-element        *)
(* string.  Code points outside ASCII are written by name: "EUR" is the    *)
(* euro sign, "BULLET" the bullet, "AE"/"ae" A/a-umlaut, "ue" u-umlaut,    *)
(* "WARN" and "VS16" the two code points of the warning emoji, "BACKTICK" *)
(* the grave accent, "ss" the sharp s.  Diagnostic                         *)
(* lines and URLs, whose length is never taken, are written with one       *)
(* element per fixed fragment.                                             *)
(*                                                                         *)
(* A Python value that may be None is None (the empty tuple) or Some(v).   *)
(***************************************************************************)
EXTENDS Integers, Sequences, FiniteSets, TLC

VARIABLES pc, today, WEBHOOK_URL, day_name, fetch_result, blocks, idx,
          menu_items, accepted, menu, gets, calls, posts, out, ret

vars == <<pc, today, WEBHOOK_URL, day_name, fetch_result, blocks, idx,
          menu_items, accepted, menu, gets, calls, posts, out, ret>>

None == <<>>
Some(v) == <<v>>
IsNone(x) == Len(x) = 0
Val(x) == x[1]

\* Python truthiness of an optional text: None and "" are falsy.
Truthy(x) == ~IsNone(x) /\ Len(Val(x)) > 0

-----------------------------------------------------------------------------
(* Text primitives (str methods used by scrape.py).                        *)

Uppers == <<"A","B","C","D","E","F","G","H","I","J","K","L","M","N","O","P",
            "Q","R","S","T","U","V","W","X","Y","Z","AE","OE","UE">>
Lowers == <<"a","b","c","d","e","f","g","h","i","j","k","l","m","n","o","p",
            "q","r","s","t","u","v","w","x","y","z","ae","oe","ue">>

LowerChar(c) ==
    IF \E k \in 1..Len(Uppers) : Uppers[k] = c
    THEN Lowers[CHOOSE k \in 1..Len(Uppers) : Uppers[k] = c]
    ELSE c

UpperChar(c) ==
    IF \E k \in 1..Len(Lowers) : Lowers[k] = c
    THEN Uppers[CHOOSE k \in 1..Len(Lowers) : Lowers[k] = c]
    ELSE c

\* str.lower()
Lower(s) == [k \in 1..Len(s) |-> LowerChar(s[k])]

\* str.capitalize()
Capitalize(s) ==
    [k \in 1..Len(s) |-> IF k = 1 THEN UpperChar(s[k]) ELSE LowerChar(s[k])]

IsSpace(c) == c \in {" ", "\n", "\t"}

\* str.strip(): lo is the first and hi the last position that holds no blank
\* (hi is found counting back from the end)
Strip(s) ==
    IF \A k \in 1..Len(s) : IsSpace(s[k])
    THEN <<>>
    ELSE LET n  == Len(s)
             lo == CHOOSE k \in 1..n :
                       ~IsSpace(s[k]) /\ \A j \in 1..(k-1) : IsSpace(s[j])
             back == CHOOSE k \in 1..n :
                       ~IsSpace(s[n + 1 - k]) /\ \A j \in 1..(k-1) : IsSpace(s[n + 1 - j])
         IN  SubSeq(s, lo, n + 1 - back)

\* str.find(sub) + 1: the first position of sub in s, 0 when absent.
Find(s, sub) ==
    LET hits == {k \in 1..(Len(s) - Len(sub) + 1) :
                     SubSeq(s, k, k + Len(sub) - 1) = sub}
    IN  IF hits = {} THEN 0 ELSE CHOOSE k \in hits : \A j \in hits : k <= j

\* sub in s
Contains(s, sub) == Find(s, sub) # 0

\* s.split(sep)[0]
SplitFirst(s, sep) ==
    IF Find(s, sep) = 0 THEN s ELSE SubSeq(s, 1, Find(s, sep) - 1)

\* s.replace(c, r) for a one-code-point c
RECURSIVE Replace(_, _, _)
Replace(s, c, r) ==
    IF s = <<>> THEN <<>>
    ELSE (IF Head(s) = c THEN r ELSE <<Head(s)>>) \o Replace(Tail(s), c, r)

\* sep.join(items)
RECURSIVE Join(_, _)
Join(sep, items) ==
    IF Len(items) = 0 THEN <<>>
    ELSE IF Len(items) = 1 THEN items[1]
    ELSE items[1] \o sep \o Join(sep, Tail(items))

\* BeautifulSoup Tag.get_text(strip=True) of an element holding one text node
GetText(elem) == Strip(Val(elem))

-----------------------------------------------------------------------------
(* Day Resolver.                                                           *)

Montag     == <<"m","o","n","t","a","g">>
Dienstag   == <<"d","i","e","n","s","t","a","g">>
Mittwoch   == <<"m","i","t","t","w","o","c","h">>
Donnerstag == <<"d","o","n","n","e","r","s","t","a","g">>
Freitag    == <<"f","r","e","i","t","a","g">>

\* The mutant of DAYS: the table has an entry for Saturday.
DAYSWithSaturday(d) ==
    CASE d = 0 -> Some(Montag)
      [] d = 1 -> Some(Dienstag)
      [] d = 2 -> Some(Mittwoch)
      [] d = 3 -> Some(Donnerstag)
      [] d = 4 -> Some(Freitag)
      [] d = 5 -> Some(<<"s","a","m","s","t","a","g">>)
      [] OTHER -> None

\* DAYS.get(d)
DAYS(d) ==
    CASE d = 0 -> Some(Montag)
      [] d = 1 -> Some(Dienstag)
      [] d = 2 -> Some(Mittwoch)
      [] d = 3 -> Some(Donnerstag)
      [] d = 4 -> Some(Freitag)
      [] OTHER -> None

Slugs == {Montag, Dienstag, Mittwoch, Donnerstag, Freitag}

MenuUrl(slug) ==
    <<"https://www.imensa.de/potsdam/mensa-griebnitzsee/">> \o slug \o <<".html">>

-----------------------------------------------------------------------------
(* Price tiering.                                                          *)

Digits == <<"0","1","2","3","4","5","6","7","8","9">>
IsDigit(c) == \E k \in 1..10 : Digits[k] = c
DigitVal(c) == (CHOOSE k \in 1..10 : Digits[k] = c) - 1

RECURSIVE DigitsVal(_)
DigitsVal(s) ==
    IF s = <<>> THEN 0
    ELSE 10 * DigitsVal(SubSeq(s, 1, Len(s) - 1)) + DigitVal(s[Len(s)])

\* float(s) for texts over digits, ".", blanks and other characters, with at
\* most two fractional digits: the value in hundredths, or a ValueError.
ParseFloat(s) ==
    LET t    == Strip(s)
        dot  == Find(t, <<".">>)
        ip   == IF dot = 0 THEN t ELSE SubSeq(t, 1, dot - 1)
        fp   == IF dot = 0 THEN <<>> ELSE SubSeq(t, dot + 1, Len(t))
        okay == /\ Len(ip) + Len(fp) > 0
                /\ \A k \in 1..Len(ip) : IsDigit(ip[k])
                /\ \A k \in 1..Len(fp) : IsDigit(fp[k])
                /\ Len(fp) <= 2
        frac == IF Len(fp) = 0 THEN 0
                ELSE IF Len(fp) = 1 THEN 10 * DigitVal(fp[1])
                ELSE 10 * DigitVal(fp[1]) + DigitVal(fp[2])
    IN  IF okay THEN [ok |-> TRUE, cents |-> 100 * DigitsVal(ip) + frac]
        ELSE [ok |-> FALSE, cents |-> 0]

RECURSIVE IntToStr(_)
IntToStr(n) ==
    IF n < 10 THEN <<Digits[n + 1]>>
    ELSE IntToStr(n \div 10) \o <<Digits[(n % 10) + 1]>>

\* f"{x:.2f}"
Format2f(cents) ==
    IntToStr(cents \div 100) \o <<".">>
        \o <<Digits[((cents % 100) \div 10) + 1], Digits[(cents % 10) + 1]>>

EmployeeMarkup == 255
GuestMarkup == 355

\* lines 78-89: the price field of an entry from the block's raw price text
PriceField(price_text) ==
    IF Len(price_text) > 0 /\ Contains(price_text, <<"EUR">>)
    THEN LET p == ParseFloat(Replace(Replace(price_text, "EUR", <<>>), ",", <<".">>))
         IN  IF p.ok
             THEN Replace(Format2f(p.cents) \o <<" ", "/", " ">>
                              \o Format2f(p.cents + EmployeeMarkup) \o <<" ", "/", " ">>
                              \o Format2f(p.cents + GuestMarkup) \o <<" ", "EUR">>,
                          ".", <<",">>)
             ELSE price_text
    ELSE <<>>

-----------------------------------------------------------------------------
(* Dietary attributes, category emoji and the rendered entry.              *)

NAEHRWERT == <<"N","AE","H","R","W","E","R","T">>
ZUSATZ    == <<"Z","U","S","A","T","Z">>
ALLERGEN  == <<"A","L","L","E","R","G","E","N">>

\* lines 92-100
DietaryInfo(attributes) ==
    IF IsNone(attributes) THEN <<>>
    ELSE LET attr_text == GetText(attributes)
         IN  IF Contains(attr_text, NAEHRWERT)
             THEN Strip(SplitFirst(attr_text, NAEHRWERT))
             ELSE Strip(SplitFirst(SplitFirst(attr_text, ZUSATZ), ALLERGEN))

CATEGORY_EMOJIS ==
    << <<<<"a","n","g","e","b","o","t">>, "PLATE">>,
       <<<<"d","e","s","s","e","r","t">>, "CAKE">>,
       <<<<"s","a","l","a","t">>, "SALAD">>,
       <<<<"s","n","a","c","k">>, "BREAD">>,
       <<<<"h","e","i","ss","e"," ","t","h","e","k","e">>, "FIRE">>,
       <<<<"a","b","e","n","d">>, "MOON">> >>

\* lines 27-33
get_emoji_for_category(category_name) ==
    LET category_lower == Lower(category_name)
        hits == {k \in 1..Len(CATEGORY_EMOJIS) :
                     Contains(category_lower, CATEGORY_EMOJIS[k][1])}
    IN  IF hits = {} THEN "BULLET"
        ELSE CATEGORY_EMOJIS[CHOOSE k \in hits : \A j \in hits : k <= j][2]

\* lines 107-112: the text of one entry
ItemText(price, category_text, dietary_info, description) ==
    <<"BULLET", " ", "*", "*">> \o price \o <<"*", "*", " ", "(">>
        \o category_text \o <<")">>
        \o (IF Len(dietary_info) > 0
            THEN <<" ", "BACKTICK">> \o dietary_info \o <<"BACKTICK">>
            ELSE <<>>)
        \o <<"\n">> \o description

\* lines 59-69: the block has both a category-name and a description element
\* (a bs4 Tag is truthy whatever it holds)
HasNameAndDesc(b) == ~IsNone(b.name) /\ ~IsNone(b.desc)

\* lines 64-114: the entry rendered from a block that has both elements
RenderBlock(b) ==
    LET category_text == GetText(b.name)
        description   == GetText(b.desc)
        price_text    == IF IsNone(b.price) THEN <<>> ELSE GetText(b.price)
    IN  ItemText(PriceField(price_text), category_text,
                 DietaryInfo(b.attrs), description)

\* line 116: the first value scrape_menu returns
MenuOf(items) == IF Len(items) > 0 THEN Some(Join(<<"\n", "\n">>, items)) ELSE None

-----------------------------------------------------------------------------
(* main(): the length ceiling.                                             *)

TruncThreshold == 4000
TruncKeep == 3900
TruncMarker ==
    <<"\n","\n","*",".",".","."," ","(","g","e","k","ue","r","z","t",")","*">>

\* The mutant of Truncated: the cut keeps as many characters as the threshold.
TruncatedAtThreshold(m) ==
    IF Len(m) > TruncThreshold
    THEN SubSeq(m, 1, TruncThreshold) \o TruncMarker
    ELSE m

\* lines 175-178
Truncated(m) ==
    IF Len(m) > TruncThreshold THEN SubSeq(m, 1, TruncKeep) \o TruncMarker ELSE m

FallbackText ==
    <<"WARN","VS16"," ","K","e","i","n"," ","S","p","e","i","s","e","p","l","a","n",
      " ","v","e","r","f","ue","g","b","a","r">>

-----------------------------------------------------------------------------
(* send_to_discord.                                                        *)

day_names_de(dn) ==
    CASE dn = Montag     -> <<"M","o","n","t","a","g">>
      [] dn = Dienstag   -> <<"D","i","e","n","s","t","a","g">>
      [] dn = Mittwoch   -> <<"M","i","t","t","w","o","c","h">>
      [] dn = Donnerstag -> <<"D","o","n","n","e","r","s","t","a","g">>
      [] dn = Freitag    -> <<"F","r","e","i","t","a","g">>
      [] OTHER           -> Capitalize(dn)

Pad2(n) == IF n < 10 THEN <<"0">> \o IntToStr(n) ELSE IntToStr(n)

\* datetime.now().strftime('%d.%m.%Y')
DateStr(now) == Pad2(now.d) \o <<".">> \o Pad2(now.m) \o <<".">> \o IntToStr(now.y)

\* lines 137-150: the JSON body
Payload(content, display_day, now) ==
    [embeds |-> << [title       |-> <<"PLATE", " Mensa Griebnitzsee -- ">> \o display_day,
                    description |-> content,
                    color       |-> 932439,
                    footer      |-> [text |-> <<"Speiseplan fuer ">> \o DateStr(now)
                                        \o <<" * Preise: Studierende / Mitarbeitende / Gaeste">>],
                    timestamp   |-> now] >>,
     username |-> <<"Mensa Bot">>]

PostOutcomes == {"ok", "network_error", "http_error"}

\* The mutant of send_to_discord: only an unset URL is refused, an empty one is
\* posted to.
send_to_discord_unset_only(content, dn, now, outcome) ==
    IF IsNone(WEBHOOK_URL)
    THEN [posts |-> <<>>, out |-> << <<"Error: DISCORD_WEBHOOK_URL not set">> >>,
          ret |-> Some(FALSE)]
    ELSE [posts |-> << [url  |-> Val(WEBHOOK_URL),
                        json |-> Payload(content, day_names_de(Val(dn)), now),
                        outcome |-> outcome] >>,
          out |-> << <<"Error posting to Discord: ", outcome>> >>,
          ret |-> Some(outcome = "ok")]

\* lines 118-159: what one call does, given the clock and how the POST ends:
\* the POSTs it issues, the lines it prints and what it returns.
send_to_discord(content, dn, now, outcome) ==
    IF ~Truthy(WEBHOOK_URL)
    THEN [posts |-> <<>>, out |-> << <<"Error: DISCORD_WEBHOOK_URL not set">> >>,
          ret |-> Some(FALSE)]
    ELSE LET display_day == day_names_de(Val(dn))
         IN  [posts |-> << [url  |-> Val(WEBHOOK_URL),
                            json |-> Payload(content, display_day, now),
                            outcome |-> outcome] >>,
              out |-> IF outcome = "ok"
                      THEN << <<"Successfully posted menu for ">> \o display_day >>
                      ELSE << <<"Error posting to Discord: ", outcome>> >>,
              ret |-> Some(outcome = "ok")]

-----------------------------------------------------------------------------
(* The inputs: the weekday, the environment, the page, the clock.          *)

MaxBlocks == 2

Block(name, desc, price, attrs) ==
    [name |-> name, desc |-> desc, price |-> price, attrs |-> attrs]

Rep(c, n) == [k \in 1..n |-> c]

Angebot == <<"A","n","g","e","b","o","t">>
Abend   == <<"A","b","e","n","d">>
Salat   == <<"S","a","l","a","t">>
Suppe   == <<"S","u","p","p","e">>
suppen  == <<"s","u","p","p","e","n">>
Reis    == <<"R","e","i","s">>
Eis     == <<" ","E","i","s"," ">>

PriceTiered   == <<"3",",","5","0"," ","EUR">>
PriceNoMarker == <<"3",",","5","0">>
PriceNoNumber == <<"x"," ","EUR">>

AttrsNutrition == <<"v","e","g","a","n"," ">> \o NAEHRWERT \o <<"x">>
AttrsAllergen  == <<"v","e","g"," ">> \o ALLERGEN \o <<"a">>

\* Category blocks of a page with short texts.
ShortBlocks ==
    { Block(Some(Angebot), Some(Suppe),  Some(PriceTiered),   Some(AttrsNutrition)),
      Block(Some(Angebot), Some(suppen), Some(PriceTiered),   None),
      Block(Some(Abend),   Some(Reis),   Some(PriceTiered),   None),
      Block(Some(Salat),   Some(Reis),   Some(PriceNoMarker), None),
      Block(Some(Salat),   Some(Suppe),  Some(PriceNoNumber), Some(AttrsAllergen)),
      Block(None,          Some(Suppe),  Some(PriceTiered),   None),
      Block(Some(Angebot), None,         Some(PriceTiered),   None),
      Block(Some(Salat),   Some(Eis),    None,                None) }

\* Characters an entry with category "A" and no price adds to its description.
ItemOverhead == Len(ItemText(<<>>, <<"A">>, <<>>, <<>>))

\* Category blocks whose entries are around the length ceiling.
LongBlocks ==
    { Block(Some(<<"A">>), Some(Rep("x", n)), None, None) :
        n \in { 5,
                TruncKeep - ItemOverhead,
                (TruncThreshold \div 2) - ItemOverhead - 1,
                (TruncThreshold \div 2) - ItemOverhead,
                TruncThreshold - ItemOverhead,
                TruncThreshold - ItemOverhead + 1 } }

\* The pages: every sequence of at most MaxBlocks blocks of U.
PagesOver(U) == UNION { [1..n -> U] : n \in 0..MaxBlocks }

FetchOutcomes == {"ok", "network_error", "http_error"}

WebhookValues == {None, Some(<<>>), Some(<<"https://discord.example/api/webhooks/1">>)}

Clock == { [d |-> 4, m |-> 11, y |-> 2026], [d |-> 15, m |-> 1, y |-> 2027] }

-----------------------------------------------------------------------------
(* One run of main().                                                      *)

Init ==
    /\ pc = "start"
    /\ today \in 0..6
    /\ WEBHOOK_URL \in WebhookValues
    /\ day_name = None
    /\ fetch_result = "none"
    /\ blocks = <<>>
    /\ idx = 1
    /\ menu_items = <<>>
    /\ accepted = <<>>
    /\ menu = None
    /\ gets = <<>>
    /\ calls = <<>>
    /\ posts = <<>>
    /\ out = <<>>
    /\ ret = None

\* lines 37-41
ResolveDay ==
    /\ pc = "start"
    /\ IF IsNone(DAYS(today))
       THEN /\ pc' = "ret"
            /\ day_name' = None
       ELSE /\ pc' = "fetch"
            /\ day_name' = DAYS(today)
    /\ UNCHANGED <<today, WEBHOOK_URL, fetch_result, blocks, idx, menu_items,
                   accepted, menu, gets, calls, posts, out, ret>>

\* The mutant of Fetch: a failed GET is tried once more.
FetchRetrying(pages) ==
    /\ pc = "fetch"
    /\ Len(gets) < 2
    /\ \E outcome \in FetchOutcomes, page \in pages :
          /\ gets' = Append(gets, MenuUrl(Val(day_name)))
          /\ fetch_result' = outcome
          /\ IF outcome = "ok"
             THEN /\ blocks' = page
                  /\ pc' = "loop"
                  /\ UNCHANGED <<day_name, out>>
             ELSE /\ out' = Append(out, <<"Error fetching menu: ", outcome>>)
                  /\ pc' = IF Len(gets) = 0 THEN "fetch" ELSE "ret"
                  /\ day_name' = IF Len(gets) = 0 THEN day_name ELSE None
                  /\ UNCHANGED blocks
    /\ UNCHANGED <<today, WEBHOOK_URL, idx, menu_items, accepted, menu, calls,
                   posts, ret>>

\* lines 43-56: one GET of the day's page; a failure ends scrape_menu with
\* (None, None)
Fetch(pages) ==
    /\ pc = "fetch"
    /\ \E outcome \in FetchOutcomes, page \in pages :
          /\ gets' = Append(gets, MenuUrl(Val(day_name)))
          /\ fetch_result' = outcome
          /\ IF outcome = "ok"
             THEN /\ blocks' = page
                  /\ pc' = "loop"
                  /\ UNCHANGED <<day_name, out>>
             ELSE /\ out' = Append(out, <<"Error fetching menu: ", outcome>>)
                  /\ pc' = "ret"
                  /\ day_name' = None
                  /\ UNCHANGED blocks
    /\ UNCHANGED <<today, WEBHOOK_URL, idx, menu_items, accepted, menu, calls,
                   posts, ret>>

\* lines 58-114: one iteration of the loop over the category blocks
ExtractBlock ==
    /\ pc = "loop"
    /\ idx <= Len(blocks)
    /\ idx' = idx + 1
    /\ IF HasNameAndDesc(blocks[idx])
       THEN /\ menu_items' = Append(menu_items, RenderBlock(blocks[idx]))
            /\ accepted' = Append(accepted, idx)
       ELSE UNCHANGED <<menu_items, accepted>>
    /\ UNCHANGED <<pc, today, WEBHOOK_URL, day_name, fetch_result, blocks, menu,
                   gets, calls, posts, out, ret>>

\* line 116
ReturnMenu ==
    /\ pc = "loop"
    /\ idx > Len(blocks)
    /\ menu' = MenuOf(menu_items)
    /\ pc' = "ret"
    /\ UNCHANGED <<today, WEBHOOK_URL, day_name, fetch_result, blocks, idx,
                   menu_items, accepted, gets, calls, posts, out, ret>>

\* A call of send_to_discord by main, with the lines printed before it.
CallSend(before, content, now, outcome) ==
    LET r == send_to_discord(content, day_name, now, outcome)
    IN  /\ calls' = Append(calls, [content |-> content, day_name |-> day_name])
        /\ posts' = posts \o r.posts
        /\ out' = (out \o before) \o r.out
        /\ ret' = r.ret

\* The mutant of MainDispatch: the menu is posted, and posted again when the
\* first POST fails.
MainDispatchRetryingPost ==
    /\ pc = "ret"
    /\ pc' = "done"
    /\ IF IsNone(menu)
       THEN /\ out' = Append(out, <<"No menu available (weekend or error)">>)
            /\ UNCHANGED <<calls, posts, ret>>
       ELSE \E now \in Clock, first \in PostOutcomes, second \in PostOutcomes :
               LET content == Truncated(Val(menu))
                   call == [content |-> content, day_name |-> day_name]
                   r1 == send_to_discord(content, day_name, now, first)
                   r2 == send_to_discord(content, day_name, now, second)
               IN  IF r1.ret = Some(TRUE)
                   THEN /\ calls' = Append(calls, call)
                        /\ posts' = posts \o r1.posts
                        /\ out' = out \o r1.out
                        /\ ret' = r1.ret
                   ELSE /\ calls' = calls \o <<call, call>>
                        /\ posts' = (posts \o r1.posts) \o r2.posts
                        /\ out' = (out \o r1.out) \o r2.out
                        /\ ret' = r2.ret
    /\ UNCHANGED <<today, WEBHOOK_URL, day_name, fetch_result, blocks, idx,
                   menu_items, accepted, menu, gets>>

\* lines 163-181: main() after scrape_menu returned
MainDispatch ==
    /\ pc = "ret"
    /\ pc' = "done"
    /\ IF IsNone(menu)
       THEN /\ out' = Append(out, <<"No menu available (weekend or error)">>)
            /\ UNCHANGED <<calls, posts, ret>>
       ELSE IF Len(Val(menu)) = 0
       THEN \E now \in Clock, outcome \in PostOutcomes :
               CallSend(<< <<"Menu is empty - posting notification">> >>,
                        FallbackText, now, outcome)
       ELSE /\ out' = (IF Len(Val(menu)) > TruncThreshold
                       THEN Append(out, <<"Menu is too long, truncating...">>)
                       ELSE out) \o << Truncated(Val(menu)) >>
            /\ UNCHANGED <<calls, posts, ret>>
    /\ UNCHANGED <<today, WEBHOOK_URL, day_name, fetch_result, blocks, idx,
                   menu_items, accepted, menu, gets>>

Next ==
    \/ ResolveDay
    \/ Fetch(PagesOver(ShortBlocks))
    \/ ExtractBlock
    \/ ReturnMenu
    \/ MainDispatch

Spec == Init /\ [][Next]_vars

\* The same run over pages whose entries are around the length ceiling.
NextLong ==
    \/ ResolveDay
    \/ Fetch(PagesOver(LongBlocks))
    \/ ExtractBlock
    \/ ReturnMenu
    \/ MainDispatch

SpecLong == Init /\ [][NextLong]_vars

-----------------------------------------------------------------------------
(* send_to_discord on its own: main() never reaches its call of it (see    *)
(* MenuOf), so it is exercised directly, with the arguments main would     *)
(* pass.                                                                   *)

SendContents ==
    {FallbackText} \cup
        { Truncated(Val(MenuOf(<<RenderBlock(b)>>))) :
            b \in {x \in ShortBlocks : HasNameAndDesc(x)} }

InitSend ==
    /\ pc = "send"
    /\ today \in 0..4
    /\ WEBHOOK_URL \in WebhookValues
    /\ day_name = DAYS(today)
    /\ fetch_result = "ok"
    /\ blocks = <<>>
    /\ idx = 1
    /\ menu_items = <<>>
    /\ accepted = <<>>
    /\ menu = None
    /\ gets = <<>>
    /\ calls = <<>>
    /\ posts = <<>>
    /\ out = <<>>
    /\ ret = None

\* lines 118-159, called with a message and the resolved day
SendToDiscord ==
    /\ pc = "send"
    /\ pc' = "returned"
    /\ \E content \in SendContents, now \in Clock, outcome \in PostOutcomes :
          CallSend(<<>>, content, now, outcome)
    /\ UNCHANGED <<today, WEBHOOK_URL, day_name, fetch_result, blocks, idx,
                   menu_items, accepted, menu, gets>>

\* line 172: the caller returns once send_to_discord has
CallerReturn ==
    /\ pc = "returned"
    /\ pc' = "done"
    /\ UNCHANGED <<today, WEBHOOK_URL, day_name, fetch_result, blocks, idx,
                   menu_items, accepted, menu, gets, calls, posts, out, ret>>

NextSend ==
    \/ SendToDiscord
    \/ CallerReturn

SpecSend == InitSend /\ [][NextSend]_vars

-----------------------------------------------------------------------------
(* What the claims speak of.                                               *)

FetchFailed == fetch_result \in {"network_error", "http_error"}

\* The formatted menu of the run: the entries joined, cut to the ceiling.
FormattedMenu == Truncated(Join(<<"\n", "\n">>, menu_items))

\* The block an emitted entry came from.
SourceOf(k) == blocks[accepted[k]]

\* The length of the common run of a from i and b from j, within a[..ahi], b[..bhi].
RECURSIVE RunLen(_, _, _, _, _, _)
RunLen(a, b, i, ahi, j, bhi) ==
    IF i > ahi \/ j > bhi \/ a[i] # b[j] THEN 0
    ELSE 1 + RunLen(a, b, i + 1, ahi, j + 1, bhi)

\* The number of matching characters of a[alo..ahi] and b[blo..bhi]: the longest
\* common block (the earliest in a, then in b), and the same to its left and right.
RECURSIVE MatchCount(_, _, _, _, _, _)
MatchCount(a, b, alo, ahi, blo, bhi) ==
    IF alo > ahi \/ blo > bhi THEN 0
    ELSE LET runs == {<<i, j>> : i \in alo..ahi, j \in blo..bhi}
             len(p) == RunLen(a, b, p[1], ahi, p[2], bhi)
             best == CHOOSE p \in runs :
                        \A q \in runs :
                            \/ len(p) > len(q)
                            \/ /\ len(p) = len(q)
                               /\ \/ p[1] < q[1]
                                  \/ p[1] = q[1] /\ p[2] <= q[2]
             k == len(best)
         IN  IF k = 0 THEN 0
             ELSE k + MatchCount(a, b, alo, best[1] - 1, blo, best[2] - 1)
                    + MatchCount(a, b, best[1] + k, ahi, best[2] + k, bhi)

\* The matching-blocks ratio 2*M/T of the case-folded texts exceeds 0.75.
NearDuplicate(x, y) ==
    LET a == Lower(x)
        b == Lower(y)
    IN  IF Len(a) + Len(b) = 0 THEN TRUE
        ELSE 8 * MatchCount(a, b, 1, Len(a), 1, Len(b)) > 3 * (Len(a) + Len(b))

\* The raw price text of a block, and whether it can be tiered.
RawPrice(b) == IF IsNone(b.price) THEN <<>> ELSE GetText(b.price)

Tierable(price_text) ==
    /\ Contains(price_text, <<"EUR">>)
    /\ ParseFloat(Replace(Replace(price_text, "EUR", <<>>), ",", <<".">>)).ok

-----------------------------------------------------------------------------
\* C1: a weekday run with a successful fetch and a non-empty menu has, when it
\* is done, issued a webhook POST whose embed description is the formatted
\* menu (the webhook being configured).
C1_MenuIsPosted ==
    (pc = "done" /\ fetch_result = "ok" /\ Len(menu_items) > 0 /\ Truthy(WEBHOOK_URL))
        => \E k \in 1..Len(posts) :
               posts[k].json.embeds[1].description = FormattedMenu

\* C2: a weekday run with a successful fetch and no surviving entry has, when
\* it is done, called send_to_discord with the fallback text and the day name.
C2_EmptyMenuNotified ==
    (pc = "done" /\ fetch_result = "ok" /\ Len(menu_items) = 0)
        => \E k \in 1..Len(calls) :
               /\ calls[k].content = FallbackText
               /\ calls[k].day_name = DAYS(today)

\* C3: once the GET has failed, the run has issued that one GET and no more,
\* has reported the failure, holds no menu, never calls the notifier or POSTs,
\* and only ends.
C3_FetchFailureEndsRun ==
    FetchFailed =>
        /\ Len(gets) = 1
        /\ posts = <<>>
        /\ calls = <<>>
        /\ IsNone(menu)
        /\ pc \in {"ret", "done"}
        /\ out[1] = <<"Error fetching menu: ", fetch_result>>
        /\ pc = "done" => out[Len(out)] = <<"No menu available (weekend or error)">>

C3_Witness == pc = "done" /\ fetch_result = "http_error" /\ Truthy(WEBHOOK_URL)

\* C4: the emitted menu never holds two entries whose case-folded descriptions
\* have a similarity ratio above 0.75.
C4_NoNearDuplicates ==
    \A i \in 1..Len(accepted) : \A j \in 1..Len(accepted) :
        i < j => ~NearDuplicate(GetText(SourceOf(j).desc), GetText(SourceOf(i).desc))

\* C5: no emitted entry comes from a block whose category name contains
\* "abend", whatever its case.
C5_NoEveningEntries ==
    \A k \in 1..Len(accepted) :
        ~Contains(Lower(GetText(SourceOf(k).name)), <<"a","b","e","n","d">>)

\* C6: on Saturday and Sunday no slug is resolved and the run issues no GET
\* and no POST; on Monday to Friday the slug is montag, dienstag, mittwoch,
\* donnerstag, freitag, and it is the page the GET asks for.
C6_DayResolver ==
    /\ today \in {5, 6} =>
          /\ IsNone(day_name)
          /\ gets = <<>>
          /\ posts = <<>>
          /\ calls = <<>>
          /\ pc \in {"start", "ret", "done"}
    /\ (today \in 0..4 /\ pc # "start") =>
          LET slug == << <<"m","o","n","t","a","g">>,
                         <<"d","i","e","n","s","t","a","g">>,
                         <<"m","i","t","t","w","o","c","h">>,
                         <<"d","o","n","n","e","r","s","t","a","g">>,
                         <<"f","r","e","i","t","a","g">> >>[today + 1]
          IN  /\ ~FetchFailed => day_name = Some(slug)
              /\ \A k \in 1..Len(gets) : gets[k] = MenuUrl(slug)

C6_Witness == pc = "done" /\ today = 5 /\ Truthy(WEBHOOK_URL)

\* C7: an emitted entry whose block has a non-empty raw price text that cannot
\* be tiered carries that raw text as its price field.
C7_PriceFallback ==
    \A k \in 1..Len(accepted) :
        LET b == SourceOf(k)
        IN  (Len(RawPrice(b)) > 0 /\ ~Tierable(RawPrice(b)))
                => menu_items[k] = ItemText(RawPrice(b), GetText(b.name),
                                            DietaryInfo(b.attrs), GetText(b.desc))

C9_MissingWebhook ==
    (~Truthy(WEBHOOK_URL) /\ pc \in {"returned", "done"}) =>
        /\ Len(calls) = 1
        /\ posts = <<>>
        /\ out = << <<"Error: DISCORD_WEBHOOK_URL not set">> >>
        /\ ret = Some(FALSE)

C9_Witness == pc = "done" /\ WEBHOOK_URL = Some(<<>>) /\ Len(calls) = 1

\* C10: a run issues at most one GET and at most one POST, and a POST only
\* after the GET succeeded.
C10_OneGetOnePost ==
    /\ Len(gets) <= 1
    /\ Len(posts) <= 1
    /\ Len(posts) > 0 => fetch_result = "ok"

C10_Witness == pc = "done" /\ Len(gets) = 1 /\ FetchFailed

====
